---- MODULE Spec2Model ----
(***************************************************************************)
(* Transaction webhook service: idempotent intake (app/main.py webhook),   *)
(* the in-memory processing queue and the single background worker         *)
(* (app/processor.py), and the status query (app/main.py get_transaction). *)
(* Every await of the handlers is a step boundary; the code between two     *)
(* awaits is one atomic step of the asyncio event loop.                     *)
(***************************************************************************)
EXTENDS Integers, Sequences, FiniteSets, TLC

\* ---------------------------------------------------------------- bounds
MaxCalls == 2
MaxTime == 1
MaxQueue == 2

Calls == 1..MaxCalls
Times == 0..MaxTime
TxnIds == {"t1", "t2"}

\* ------------------------------------------------------------ data model
PROCESSING == "PROCESSING"
PROCESSED == "PROCESSED"
TransactionStatus == {PROCESSING, PROCESSED}

\* Python None in a DateTime column, JSON null in a payload
NoTime == -1
JsonNull == "<null>"
NoId == "<none>"

Fields == {"transaction_id", "source_account", "destination_account", "amount", "currency"}

\* Columns of table transactions declared nullable=False or primary_key
NotNullCols == {"transaction_id", "source_account", "destination_account", "amount", "currency", "status"}

\* session.get found nothing (Python None)
NoRow ==
  [transaction_id |-> NoId, source_account |-> JsonNull, destination_account |-> JsonNull,
   amount |-> JsonNull, currency |-> JsonNull, status |-> PROCESSING,
   created_at |-> NoTime, processed_at |-> NoTime]

\* ---------------------------------------------------------------- inputs
GoodPayload(t, v) ==
  IF v = 1
  THEN [transaction_id |-> t, source_account |-> "acc_user_1", destination_account |-> "acc_merchant_1",
        amount |-> "100", currency |-> "USD"]
  ELSE [transaction_id |-> t, source_account |-> "acc_user_2", destination_account |-> "acc_merchant_2",
        amount |-> "200", currency |-> "INR"]

DropField(p, f) == [k \in (DOMAIN p) \ {f} |-> p[k]]

GoodPayloads == {GoodPayload("t1", 1), GoodPayload("t1", 2), GoodPayload("t2", 2)}
LackingPayloads == {DropField(GoodPayload("t1", 1), f) : f \in Fields}
NullPayloads == {[GoodPayload("t1", 1) EXCEPT !.amount = JsonNull]}
Payloads == GoodPayloads \cup LackingPayloads \cup NullPayloads

NoData == [k \in {} |-> JsonNull]

WellFormed(p) == Fields \subseteq DOMAIN p /\ \A f \in Fields : p[f] # JsonNull
Lacks(p) == \E f \in Fields : f \notin DOMAIN p

\* ----------------------------------------------------------------- state
VARIABLES
  store,      \* committed rows of table transactions
  queue,      \* transaction_queue (asyncio.Queue, unbounded FIFO)
  now,        \* the last value datetime.datetime.utcnow() returned
  pc,         \* webhook handler position, per call
  data,       \* webhook: data = await request.json()
  txn,        \* webhook: the Transaction object built at lines 31-39
  outcome,    \* webhook: the response returned
  lookups,    \* history: session.get calls issued by each webhook call
  after,      \* history: status of the record when the call arrived after an identical submit, sequentially
  enqCount,   \* history: enqueue_transaction calls per transaction_id
  enqOrder,   \* history: the identities in the order they were put on the queue
  wpc,        \* process_transactions position
  wid,        \* process_transactions: txn_id
  wobj,       \* process_transactions: txn (the loaded ORM object)
  wdone,      \* history: identities whose update the worker committed
  deqCount,   \* history: transaction_queue.get returns per transaction_id
  qresp       \* get_transaction: the last response

vars == <<store, queue, now, pc, data, txn, outcome, lookups, after, enqCount, enqOrder,
          wpc, wid, wobj, wdone, deqCount, qresp>>

callVars == <<pc, data, txn, outcome, lookups, after>>
workerVars == <<wpc, wid, wobj, wdone, deqCount>>

Queued == "Queued for processing"
AlreadyProcessing == "Already processing"
AlreadyExists == "Idempotent: already exists"
KeyError == "KeyError"
\* the process ended before the handler returned: the client gets no response
Aborted == "aborted"
Pending == ""
Duplicate == {AlreadyProcessing, AlreadyExists}

\* line 54: the 404 body
NotFound == [error |-> "Transaction not found"]

\* ------------------------------------------------------------- the store
Rows(s, t) == {r \in s : r.transaction_id = t}

\* session.get(Transaction, t): the row with primary key t, or None
Get(s, t) == IF Rows(s, t) = {} THEN NoRow ELSE CHOOSE r \in Rows(s, t) : TRUE

\* mutant: the primary-key constraint is missing, only NOT NULL is enforced
IntegrityErrorNoPK(s, r) == \E col \in NotNullCols : r[col] = JsonNull

\* the INSERT of session.commit() raises IntegrityError
IntegrityError(s, r) ==
  \/ Rows(s, r.transaction_id) # {}
  \/ \E col \in NotNullCols : r[col] = JsonNull

\* mutant: the UPDATE has no WHERE clause
UpdateAll(s, o) ==
  {[r EXCEPT !.status = o.status, !.processed_at = o.processed_at] : r \in s}

\* mutant: the UPDATE also stamps created_at
UpdateTouch(s, o) ==
  {IF r.transaction_id = o.transaction_id
   THEN [r EXCEPT !.status = o.status, !.processed_at = o.processed_at,
                  !.created_at = o.processed_at]
   ELSE r : r \in s}

\* the UPDATE of session.commit() for a dirty object o
Update(s, o) ==
  {IF r.transaction_id = o.transaction_id
   THEN [r EXCEPT !.status = o.status, !.processed_at = o.processed_at]
   ELSE r : r \in s}

Init ==
  /\ store = {}
  /\ queue = <<>>
  /\ now = 0
  /\ pc = [c \in Calls |-> "idle"]
  /\ data = [c \in Calls |-> NoData]
  /\ txn = [c \in Calls |-> NoRow]
  /\ outcome = [c \in Calls |-> Pending]
  /\ lookups = [c \in Calls |-> 0]
  /\ after = [c \in Calls |-> "no"]
  /\ enqCount = [t \in TxnIds |-> 0]
  /\ enqOrder = <<>>
  /\ wpc = "get"
  /\ wid = NoId
  /\ wobj = NoRow
  /\ wdone = {}
  /\ deqCount = [t \in TxnIds |-> 0]
  /\ qresp = [tid |-> NoId, code |-> 0, body |-> NotFound]

\* datetime.datetime.utcnow(): a value not before the last one read
UtcNow(last) == last..MaxTime

\* ------------------------------------------------------- webhook, main.py
\* this call arrives one after another: an identical well-formed submit has returned
\* and no other submit is in progress
AfterOf(p) ==
  IF /\ WellFormed(p)
     /\ \E d \in Calls : pc[d] = "done" /\ data[d] = p
     /\ \A d \in Calls : pc[d] \in {"idle", "done"}
  THEN Get(store, p.transaction_id).status
  ELSE "no"

\* mutant: source and destination are taken from each other's field
NewTransactionSwapped(p, t) ==
  [transaction_id |-> p.transaction_id, source_account |-> p.destination_account,
   destination_account |-> p.source_account, amount |-> p.amount,
   currency |-> p.currency, status |-> PROCESSING,
   created_at |-> t, processed_at |-> NoTime]

\* lines 31-39: Transaction(...) built from the payload
NewTransaction(p, t) ==
  [transaction_id |-> p.transaction_id, source_account |-> p.source_account,
   destination_account |-> p.destination_account, amount |-> p.amount,
   currency |-> p.currency, status |-> PROCESSING,
   created_at |-> t, processed_at |-> NoTime]

\* mutant: a duplicate found by the lookup is put on the queue again
LookupRequeue(c, p) ==
  /\ pc[c] = "idle"
  /\ IF c = 1 THEN TRUE ELSE pc[c - 1] # "idle"
  /\ data' = [data EXCEPT ![c] = p]
  /\ after' = [after EXCEPT ![c] = AfterOf(p)]
  /\ IF "transaction_id" \notin DOMAIN p
     THEN /\ pc' = [pc EXCEPT ![c] = "done"]
          /\ outcome' = [outcome EXCEPT ![c] = KeyError]
          /\ UNCHANGED <<lookups, txn, now, queue, enqCount, enqOrder>>
     ELSE /\ lookups' = [lookups EXCEPT ![c] = @ + 1]
          /\ IF Get(store, p.transaction_id) # NoRow
             THEN /\ pc' = [pc EXCEPT ![c] = "done"]
                  /\ outcome' = [outcome EXCEPT ![c] = AlreadyProcessing]
                  /\ queue' = Append(queue, p.transaction_id)
                  /\ enqCount' = [enqCount EXCEPT ![p.transaction_id] = @ + 1]
                  /\ enqOrder' = Append(enqOrder, p.transaction_id)
                  /\ UNCHANGED <<txn, now>>
             ELSE IF Lacks(p)
             THEN /\ pc' = [pc EXCEPT ![c] = "done"]
                  /\ outcome' = [outcome EXCEPT ![c] = KeyError]
                  /\ UNCHANGED <<txn, now, queue, enqCount, enqOrder>>
             ELSE /\ pc' = [pc EXCEPT ![c] = "commit"]
                  /\ \E t \in UtcNow(now) :
                        /\ now' = t
                        /\ txn' = [txn EXCEPT ![c] = NewTransaction(p, t)]
                  /\ outcome' = outcome
                  /\ UNCHANGED <<queue, enqCount, enqOrder>>
  /\ UNCHANGED <<store, workerVars, qresp>>

\* lines 26-40: read the payload, data["transaction_id"], session.get; duplicate,
\* or build the object and start the commit
Lookup(c, p) ==
  /\ pc[c] = "idle"
  /\ IF c = 1 THEN TRUE ELSE pc[c - 1] # "idle"
  /\ data' = [data EXCEPT ![c] = p]
  /\ after' = [after EXCEPT ![c] = AfterOf(p)]
  /\ IF "transaction_id" \notin DOMAIN p
     THEN /\ pc' = [pc EXCEPT ![c] = "done"]
          /\ outcome' = [outcome EXCEPT ![c] = KeyError]
          /\ UNCHANGED <<lookups, txn, now>>
     ELSE /\ lookups' = [lookups EXCEPT ![c] = @ + 1]
          /\ IF Get(store, p.transaction_id) # NoRow
             THEN /\ pc' = [pc EXCEPT ![c] = "done"]
                  /\ outcome' = [outcome EXCEPT ![c] = AlreadyProcessing]
                  /\ UNCHANGED <<txn, now>>
             ELSE IF Lacks(p)
             THEN /\ pc' = [pc EXCEPT ![c] = "done"]
                  /\ outcome' = [outcome EXCEPT ![c] = KeyError]
                  /\ UNCHANGED <<txn, now>>
             ELSE /\ pc' = [pc EXCEPT ![c] = "commit"]
                  /\ \E t \in UtcNow(now) :
                        /\ now' = t
                        /\ txn' = [txn EXCEPT ![c] = NewTransaction(p, t)]
                  /\ outcome' = outcome
  /\ UNCHANGED <<store, queue, enqCount, enqOrder, workerVars, qresp>>

\* mutant: the except branch rolls back but does not return
CommitNoReturn(c) ==
  /\ pc[c] = "commit"
  /\ pc' = [pc EXCEPT ![c] = "enqueue"]
  /\ store' = IF IntegrityError(store, txn[c]) THEN store ELSE store \cup {txn[c]}
  /\ UNCHANGED <<queue, now, data, txn, outcome, lookups, after, enqCount, enqOrder, workerVars, qresp>>

\* mutant: session.merge instead of session.add, the commit overwrites an existing row
CommitMerge(c) ==
  /\ pc[c] = "commit"
  /\ IF \E col \in NotNullCols : txn[c][col] = JsonNull
     THEN /\ pc' = [pc EXCEPT ![c] = "done"]
          /\ outcome' = [outcome EXCEPT ![c] = AlreadyExists]
          /\ store' = store
          /\ txn' = [txn EXCEPT ![c] = NoRow]
     ELSE /\ pc' = [pc EXCEPT ![c] = "enqueue"]
          /\ store' = (store \ Rows(store, txn[c].transaction_id)) \cup {txn[c]}
          /\ outcome' = outcome
          /\ txn' = txn
  /\ UNCHANGED <<queue, now, data, lookups, after, enqCount, enqOrder, workerVars, qresp>>

\* mutant: the commit waits while the worker holds its session open
CommitBlocked(c) ==
  /\ pc[c] = "commit"
  /\ wpc \notin {"sleep", "commit"}
  /\ IF IntegrityError(store, txn[c])
     THEN /\ pc' = [pc EXCEPT ![c] = "done"]
          /\ outcome' = [outcome EXCEPT ![c] = AlreadyExists]
          /\ store' = store
          /\ txn' = [txn EXCEPT ![c] = NoRow]
     ELSE /\ pc' = [pc EXCEPT ![c] = "enqueue"]
          /\ store' = store \cup {txn[c]}
          /\ outcome' = outcome
          /\ txn' = txn
  /\ UNCHANGED <<queue, now, data, lookups, after, enqCount, enqOrder, workerVars, qresp>>

\* lines 41-45: session.commit(); IntegrityError -> rollback, duplicate
Commit(c) ==
  /\ pc[c] = "commit"
  /\ IF IntegrityError(store, txn[c])
     THEN /\ pc' = [pc EXCEPT ![c] = "done"]
          /\ outcome' = [outcome EXCEPT ![c] = AlreadyExists]
          /\ store' = store
          /\ txn' = [txn EXCEPT ![c] = NoRow]
     ELSE /\ pc' = [pc EXCEPT ![c] = "enqueue"]
          /\ store' = store \cup {txn[c]}
          /\ outcome' = outcome
          /\ txn' = txn
  /\ UNCHANGED <<queue, now, data, lookups, after, enqCount, enqOrder, workerVars, qresp>>

\* mutant: the identity is put on the queue twice
EnqueueTwice(c) ==
  /\ pc[c] = "enqueue"
  /\ queue' = Append(Append(queue, data[c].transaction_id), data[c].transaction_id)
  /\ enqCount' = [enqCount EXCEPT ![data[c].transaction_id] = @ + 2]
  /\ enqOrder' = Append(Append(enqOrder, data[c].transaction_id), data[c].transaction_id)
  /\ pc' = [pc EXCEPT ![c] = "done"]
  /\ outcome' = [outcome EXCEPT ![c] = Queued]
  /\ txn' = [txn EXCEPT ![c] = NoRow]
  /\ UNCHANGED <<store, now, data, lookups, after, workerVars, qresp>>

\* lines 46-47 and processor.py 22-23: the handler resumes after the commit, enqueues, returns
Enqueue(c) ==
  /\ pc[c] = "enqueue"
  /\ queue' = Append(queue, data[c].transaction_id)
  /\ enqCount' = [enqCount EXCEPT ![data[c].transaction_id] = @ + 1]
  /\ enqOrder' = Append(enqOrder, data[c].transaction_id)
  /\ pc' = [pc EXCEPT ![c] = "done"]
  /\ outcome' = [outcome EXCEPT ![c] = Queued]
  /\ txn' = [txn EXCEPT ![c] = NoRow]
  /\ UNCHANGED <<store, now, data, lookups, after, workerVars, qresp>>

\* -------------------------------------- process_transactions, processor.py
\* mutant: the newest item is taken first (a LifoQueue)
WorkerGetLifo ==
  /\ wpc = "get"
  /\ queue # <<>>
  /\ wid' = queue[Len(queue)]
  /\ queue' = SubSeq(queue, 1, Len(queue) - 1)
  /\ deqCount' = [deqCount EXCEPT ![wid'] = @ + 1]
  /\ wpc' = "lookup"
  /\ UNCHANGED <<store, now, callVars, enqCount, enqOrder, wobj, wdone, qresp>>

\* line 12: txn_id = await transaction_queue.get()
WorkerGet ==
  /\ wpc = "get"
  /\ queue # <<>>
  /\ wid' = Head(queue)
  /\ queue' = Tail(queue)
  /\ deqCount' = [deqCount EXCEPT ![wid'] = @ + 1]
  /\ wpc' = "lookup"
  /\ UNCHANGED <<store, now, callVars, enqCount, enqOrder, wobj, wdone, qresp>>

\* mutant: the status of the loaded record is not examined
WorkerLookupNoCheck ==
  /\ wpc = "lookup"
  /\ wobj' = Get(store, wid)
  /\ wpc' = IF wobj' # NoRow THEN "sleep" ELSE "get"
  /\ UNCHANGED <<store, queue, now, callVars, enqCount, enqOrder, wid, wdone, deqCount, qresp>>

\* lines 14-16 and 20: session.get returns; sleep if PROCESSING, otherwise task_done
WorkerLookup ==
  /\ wpc = "lookup"
  /\ wobj' = Get(store, wid)
  /\ wpc' = IF wobj' # NoRow /\ wobj'.status = PROCESSING THEN "sleep" ELSE "get"
  /\ UNCHANGED <<store, queue, now, callVars, enqCount, enqOrder, wid, wdone, deqCount, qresp>>

\* mutant: the status is set, processed_at is forgotten
WorkerWakeNoStamp ==
  /\ wpc = "sleep"
  /\ wobj' = [wobj EXCEPT !.status = PROCESSED]
  /\ wpc' = "commit"
  /\ UNCHANGED <<store, queue, now, callVars, enqCount, enqOrder, wid, wdone, deqCount, qresp>>

\* lines 16-19: the sleep ends; the object is modified and the commit starts
WorkerWake ==
  /\ wpc = "sleep"
  /\ \E t \in UtcNow(now) :
        /\ now' = t
        /\ wobj' = [wobj EXCEPT !.status = PROCESSED, !.processed_at = t]
  /\ wpc' = "commit"
  /\ UNCHANGED <<store, queue, callVars, enqCount, enqOrder, wid, wdone, deqCount, qresp>>

\* lines 19-20: the commit is applied; task_done; next iteration
WorkerCommit ==
  /\ wpc = "commit"
  /\ store' = Update(store, wobj)
  /\ wdone' = wdone \cup {wid}
  /\ wpc' = "get"
  /\ UNCHANGED <<queue, now, callVars, enqCount, enqOrder, wid, wobj, deqCount, qresp>>

\* line 14: session.get raises; nothing in process_transactions catches it
WorkerLookupFail ==
  /\ wpc = "lookup"
  /\ wpc' = "dead"
  /\ UNCHANGED <<store, queue, now, callVars, enqCount, enqOrder, wid, wobj, wdone, deqCount, qresp>>

\* mutant: the failing commit leaves the status written and processed_at not
WorkerCommitFailPartial ==
  /\ wpc = "commit"
  /\ wpc' = "dead"
  /\ store' = {IF r.transaction_id = wobj.transaction_id
               THEN [r EXCEPT !.status = wobj.status] ELSE r : r \in store}
  /\ UNCHANGED <<queue, now, callVars, enqCount, enqOrder, wid, wobj, wdone, deqCount, qresp>>

\* line 19: session.commit raises; nothing in process_transactions catches it
WorkerCommitFail ==
  /\ wpc = "commit"
  /\ wpc' = "dead"
  /\ UNCHANGED <<store, queue, now, callVars, enqCount, enqOrder, wid, wobj, wdone, deqCount, qresp>>

\* ------------------------------------------------ get_transaction, main.py
\* datetime.isoformat() and its reading back
IsoFormat(t) == <<"iso", t>>
IsoTime(s) == s[2]

\* line 63: "processed_at": None
NullTime == <<"null">>

\* mutant: processed_at is never rendered
BodyNoProcessedAt(r) ==
  [transaction_id |-> r.transaction_id, source_account |-> r.source_account,
   destination_account |-> r.destination_account, amount |-> r.amount,
   currency |-> r.currency, status |-> r.status,
   created_at |-> IsoFormat(r.created_at),
   processed_at |-> NullTime]

\* lines 55-64: the response body
Body(r) ==
  [transaction_id |-> r.transaction_id, source_account |-> r.source_account,
   destination_account |-> r.destination_account, amount |-> r.amount,
   currency |-> r.currency, status |-> r.status,
   created_at |-> IsoFormat(r.created_at),
   processed_at |-> IF r.processed_at # NoTime THEN IsoFormat(r.processed_at) ELSE NullTime]

\* lines 50-64
Response(s, t) ==
  IF Get(s, t) = NoRow
  THEN [tid |-> t, code |-> 404, body |-> NotFound]
  ELSE [tid |-> t, code |-> 200, body |-> Body(Get(s, t))]

\* mutant: a query of a pending record puts it on the queue again
QueryRequeue(t) ==
  /\ qresp' = Response(store, t)
  /\ qresp' # qresp
  /\ queue' = IF PROCESSING \in {r.status : r \in Rows(store, t)} THEN Append(queue, t) ELSE queue
  /\ UNCHANGED <<store, now, callVars, enqCount, enqOrder, workerVars>>

Query(t) ==
  /\ qresp' = Response(store, t)
  /\ qresp' # qresp
  /\ UNCHANGED <<store, queue, now, callVars, enqCount, enqOrder, workerVars>>

\* -------------------------------------------------------- specifications
Next ==
  \/ \E c \in Calls, p \in Payloads : Lookup(c, p)
  \/ \E c \in Calls : Commit(c)
  \/ \E c \in Calls : Enqueue(c)
  \/ WorkerGet
  \/ WorkerLookup
  \/ WorkerWake
  \/ WorkerCommit
  \/ WorkerLookupFail
  \/ WorkerCommitFail
  \/ \E t \in TxnIds : Query(t)

Spec == Init /\ [][Next]_vars

\* The event loop runs every ready task: the worker's own steps are taken when enabled.
FairSpec ==
  /\ Spec
  /\ WF_vars(WorkerGet)
  /\ WF_vars(WorkerLookup)
  /\ WF_vars(WorkerWake)
  /\ WF_vars(WorkerCommit)

\* The processor module on its own: enqueue_transaction accepts any identity, whatever
\* the store holds for it, so the worker may meet any queue over any store.
SampleRow(t, st) ==
  [NewTransaction(GoodPayload(t, 2), 0) EXCEPT
     !.status = st, !.processed_at = IF st = PROCESSED THEN 0 ELSE NoTime]
SampleStores ==
  {S \in SUBSET {SampleRow(t, st) : t \in TxnIds, st \in TransactionStatus} :
     \A t \in TxnIds : Cardinality(Rows(S, t)) <= 1}
SampleQueues == UNION {[1..n -> TxnIds] : n \in 0..MaxQueue}
Occurrences(q, t) == Cardinality({i \in 1..Len(q) : q[i] = t})

WorkerInit ==
  /\ store \in SampleStores
  /\ queue \in SampleQueues
  /\ now = 0
  /\ pc = [c \in Calls |-> "idle"]
  /\ data = [c \in Calls |-> NoData]
  /\ txn = [c \in Calls |-> NoRow]
  /\ outcome = [c \in Calls |-> Pending]
  /\ lookups = [c \in Calls |-> 0]
  /\ after = [c \in Calls |-> "no"]
  /\ enqCount = [t \in TxnIds |-> Occurrences(queue, t)]
  /\ enqOrder = queue
  /\ wpc = "get"
  /\ wid = NoId
  /\ wobj = NoRow
  /\ wdone = {}
  /\ deqCount = [t \in TxnIds |-> 0]
  /\ qresp = [tid |-> NoId, code |-> 0, body |-> NotFound]

WorkerNext ==
  \/ WorkerGet
  \/ WorkerLookup
  \/ WorkerWake
  \/ WorkerCommit
  \/ WorkerLookupFail
  \/ WorkerCommitFail

WorkerSpec == WorkerInit /\ [][WorkerNext]_vars

\* The process ends and is started again: transaction_queue and every running handler
\* and task live in the process and are gone, db.sqlite3 is a file and is kept; startup
\* creates the tables only if missing and launches a fresh worker on an empty queue.
Restart ==
  /\ queue' = <<>>
  /\ pc' = [c \in Calls |-> IF pc[c] \in {"commit", "enqueue"} THEN "done" ELSE pc[c]]
  /\ outcome' = [c \in Calls |-> IF pc[c] \in {"commit", "enqueue"} THEN Aborted ELSE outcome[c]]
  /\ txn' = [c \in Calls |-> NoRow]
  /\ wpc' = "get"
  /\ wid' = NoId
  /\ wobj' = NoRow
  /\ UNCHANGED <<store, now, data, lookups, after, enqCount, enqOrder, wdone, deqCount, qresp>>

RestartNext ==
  \/ Next
  \/ Restart

RestartSpec == Init /\ [][RestartNext]_vars

\* ------------------------------------------------------------ properties
HasId(p) == "transaction_id" \in DOMAIN p
TidOf(c) == IF HasId(data[c]) THEN data[c].transaction_id ELSE NoId
CallsOn(t) == {c \in Calls : pc[c] # "idle" /\ HasId(data[c]) /\ data[c].transaction_id = t}
WellFormedCallsOn(t) == {c \in CallsOn(t) : WellFormed(data[c])}
NoneInFlight == \A c \in Calls : pc[c] \in {"idle", "done"}
StatusOf(s, t) == {r.status : r \in Rows(s, t)}
Frame(r) == <<r.source_account, r.destination_account, r.amount, r.currency, r.created_at>>

\* C1: when no submit is in flight, every transaction_id that received at least one
\* well-formed submit has exactly one call that returned the queued outcome, every other
\* well-formed call on it returned a duplicate outcome, and the store holds exactly one
\* record for it.
C1_ExactlyOneQueued ==
  NoneInFlight =>
    \A t \in TxnIds :
      WellFormedCallsOn(t) # {} =>
        /\ Cardinality({c \in CallsOn(t) : outcome[c] = Queued}) = 1
        /\ \A c \in WellFormedCallsOn(t) : outcome[c] \in {Queued} \cup Duplicate
        /\ Cardinality(Rows(store, t)) = 1

\* two submits of t1 raced past the lookup: one was queued, the other lost at the commit
C1_Witness ==
  /\ \A c \in Calls : pc[c] = "done"
  /\ \E c, d \in WellFormedCallsOn("t1") :
       outcome[c] = Queued /\ outcome[d] = AlreadyExists

\* C2: in every reachable state each transaction_id has been put on the processing
\* queue at most once in total.
C2_AtMostOneEnqueue == \A t \in TxnIds : enqCount[t] <= 1

\* t1 was enqueued once, processed, and submitted again afterwards
C2_Witness ==
  /\ enqCount["t1"] = 1
  /\ "t1" \in wdone
  /\ Cardinality({c \in CallsOn("t1") : pc[c] = "done"}) >= 2

\* C3: a submit that arrives after an identical well-formed submit has returned, with no
\* other submit in progress, changes neither the store nor the queue in any of its steps
\* and returns a duplicate
\* acknowledgment; the store then holds exactly one record of the identity and the
\* identity was enqueued exactly once, whether the record is PROCESSING or PROCESSED.
C3_SequentialDuplicate ==
  [][\A c \in Calls :
       (pc'[c] # pc[c] /\ after'[c] # "no") =>
         /\ store' = store
         /\ queue' = queue
         /\ enqCount' = enqCount
         /\ pc'[c] = "done" => outcome'[c] \in Duplicate
         /\ Cardinality(Rows(store', data'[c].transaction_id)) = 1
         /\ enqCount'[data'[c].transaction_id] = 1]_vars

\* the same payload was submitted again after its record had been processed
C3_Witness ==
  \E c \in Calls :
    /\ after[c] = PROCESSED
    /\ pc[c] = "done"
    /\ outcome[c] = AlreadyProcessing

\* C4: in every step, a record that appears is PROCESSING, no record disappears, every
\* status is PROCESSING or PROCESSED, and a record that is PROCESSED stays PROCESSED.
C4_StatusMonotone ==
  [][\A t \in TxnIds :
       /\ StatusOf(store', t) \subseteq TransactionStatus
       /\ Rows(store, t) = {} => StatusOf(store', t) \subseteq {PROCESSING}
       /\ Rows(store, t) # {} => Rows(store', t) # {}
       /\ PROCESSED \in StatusOf(store, t) => StatusOf(store', t) = {PROCESSED}]_vars

\* one record has been processed while another is still PROCESSING
C4_Witness ==
  /\ StatusOf(store, "t1") = {PROCESSED}
  /\ StatusOf(store, "t2") = {PROCESSING}

\* C5: in every committed store state, and in every query response, processed_at is set
\* if and only if status is PROCESSED.
C5_ProcessedAtIffProcessed ==
  /\ \A r \in store : (r.processed_at # NoTime) <=> (r.status = PROCESSED)
  /\ qresp.code = 200 =>
       ((qresp.body.processed_at # NullTime) <=> (qresp.body.status = PROCESSED))

\* a reader saw a PROCESSED record with its processed_at while another record is pending
C5_Witness ==
  /\ qresp.code = 200
  /\ qresp.body.status = PROCESSED
  /\ qresp.body.processed_at # NullTime
  /\ \E r \in store : r.status = PROCESSING /\ r.processed_at = NoTime

\* C6: under fair scheduling of the worker, every transaction whose submit returned the
\* queued outcome eventually reaches status PROCESSED.
C6_NoTransactionLost ==
  \A c \in Calls :
    (outcome[c] = Queued) ~> (StatusOf(store, TidOf(c)) = {PROCESSED})

\* C7: a query of an identity never submitted returns not-found; from the moment a submit
\* of it returned queued until the worker commits it returns PROCESSING with processed_at
\* null; after the worker commits it returns PROCESSED with processed_at >= created_at.
C7_QueryReflectsStore ==
  [][\A t \in TxnIds :
       (qresp' # qresp /\ qresp'.tid = t) =>
         /\ CallsOn(t) = {} => (qresp'.code = 404 /\ qresp'.body = NotFound)
         /\ ((\E c \in CallsOn(t) : outcome[c] = Queued) /\ t \notin wdone) =>
              /\ qresp'.code = 200
              /\ qresp'.body.status = PROCESSING
              /\ qresp'.body.processed_at = NullTime
         /\ t \in wdone =>
              /\ qresp'.code = 200
              /\ qresp'.body.status = PROCESSED
              /\ qresp'.body.processed_at # NullTime
              /\ IsoTime(qresp'.body.processed_at) >= IsoTime(qresp'.body.created_at)]_vars

\* a query answered PROCESSED with processed_at later than created_at
C7_Witness ==
  /\ qresp.code = 200
  /\ qresp.tid \in wdone
  /\ qresp.body.status = PROCESSED
  /\ qresp.body.processed_at # NullTime
  /\ IsoTime(qresp.body.processed_at) > IsoTime(qresp.body.created_at)

\* C8: an error raised while the worker processes a dequeued item does not terminate
\* the loop: after it the worker is back at the dequeue.
C8_WorkerSurvivesError ==
  [][(WorkerLookupFail \/ WorkerCommitFail) => wpc' = "get"]_vars

\* C9: a submit whose payload lacks a required field is rejected as malformed before any
\* store interaction: it issues no lookup and ends with the error.
C9_RejectedBeforeStore ==
  \A c \in Calls :
    (pc[c] # "idle" /\ Lacks(data[c])) =>
      /\ lookups[c] = 0
      /\ pc[c] = "done"
      /\ outcome[c] = KeyError

\* C10: in every step, every stored record keeps its source_account, destination_account,
\* amount, currency and created_at, and no second record of its identity appears.
C10_FieldsImmutable ==
  [][\A r \in store :
       /\ Rows(store', r.transaction_id) # {}
       /\ \A r2 \in Rows(store', r.transaction_id) : Frame(r2) = Frame(r)]_vars

\* t1 was created from one payload, a submit carrying other values was acknowledged as a
\* duplicate, and the worker has processed the record: the first values are in place
C10_Witness ==
  /\ \E c, d \in CallsOn("t1") :
       /\ WellFormed(data[c]) /\ WellFormed(data[d])
       /\ data[c] # data[d]
       /\ outcome[c] = Queued /\ outcome[d] \in Duplicate
       /\ \E r \in store : r.status = PROCESSED /\ r.amount = data[c].amount /\ r.amount # data[d].amount

InQueue(t) == \E i \in 1..Len(queue) : queue[i] = t

\* C11: for every transaction_id the order is creation, enqueue, dequeue, mark-processed:
\* an identity that is on the queue or was ever enqueued has a committed record, it was
\* dequeued no more often than enqueued, and a PROCESSED record was dequeued before.
C11_StrictOrder ==
  \A t \in TxnIds :
    /\ InQueue(t) => Rows(store, t) # {}
    /\ enqCount[t] > 0 => Rows(store, t) # {}
    /\ enqCount[t] = 0 => (~InQueue(t) /\ wid # t)
    /\ deqCount[t] <= enqCount[t]
    /\ (PROCESSED \in StatusOf(store, t) \/ t \in wdone) => deqCount[t] > 0

\* t1 went through the whole chain while t2 is committed and enqueued, not yet dequeued
C11_Witness ==
  /\ StatusOf(store, "t1") = {PROCESSED}
  /\ deqCount["t1"] = 1
  /\ InQueue("t2")
  /\ deqCount["t2"] = 0

\* C12: a query step changes nothing but the response it returns: the store, the queue,
\* the submits in progress and the worker are as before.
C12_QueryPureRead ==
  [][(qresp' # qresp) =>
       UNCHANGED <<store, queue, now, callVars, enqCount, enqOrder, workerVars>>]_vars

\* a query answered 200 for an identity whose submit is between its commit and its enqueue
C12_Witness ==
  /\ qresp.code = 200
  /\ \E c \in Calls : pc[c] = "enqueue" /\ TidOf(c) = qresp.tid
  /\ wpc = "sleep"

\* C13: while the worker is in its hold step, every submit step that is due (the lookup
\* of an arriving submit, the commit, the enqueue and return) and every query can be
\* taken; none waits for the worker to leave the hold.
C13_HoldBlocksNoHandler ==
  wpc = "sleep" =>
    /\ \A c \in Calls :
         /\ pc[c] = "commit" => ENABLED Commit(c)
         /\ pc[c] = "enqueue" => ENABLED Enqueue(c)
         /\ (pc[c] = "idle" /\ (IF c = 1 THEN TRUE ELSE pc[c - 1] # "idle")) =>
              \A p \in Payloads : ENABLED Lookup(c, p)
    /\ \A t \in TxnIds : qresp = Response(store, t) \/ ENABLED Query(t)

\* the worker holds t1 while the submit of another identity is waiting for its commit
C13_Witness ==
  /\ wpc = "sleep"
  /\ wid = "t1"
  /\ \E c \in Calls : pc[c] = "commit" /\ TidOf(c) # "t1"

\* the record a payload creates, creation time aside
FromPayload(r, p) ==
  /\ WellFormed(p)
  /\ r.transaction_id = p.transaction_id
  /\ r.source_account = p.source_account
  /\ r.destination_account = p.destination_account
  /\ r.amount = p.amount
  /\ r.currency = p.currency

\* C14: every identity whose submit was queued has exactly one record, every record holds
\* the field values of a payload submitted for its own identity, and a step changes the
\* record of at most one identity: the one whose submit commits or whose update the
\* worker commits.
C14_Independent ==
  [][/\ \A t \in TxnIds :
          /\ Cardinality(Rows(store', t)) <= 1
          /\ (\E c \in Calls : outcome'[c] = Queued /\ data'[c].transaction_id = t) =>
               Cardinality(Rows(store', t)) = 1
          /\ Rows(store', t) # Rows(store, t) =>
               \/ \E c \in Calls : pc[c] = "commit" /\ pc'[c] = "enqueue" /\ txn[c].transaction_id = t
               \/ wpc = "commit" /\ wpc' = "get" /\ wid = t
     /\ \A r \in store' : \E c \in Calls : pc'[c] # "idle" /\ FromPayload(r, data'[c])
     /\ Cardinality({t \in TxnIds : Rows(store', t) # Rows(store, t)}) <= 1]_vars

\* two identities were submitted with different values; each record holds its own, and
\* t1 has been processed while t2 has not
C14_Witness ==
  /\ \E r \in Rows(store, "t1") : FromPayload(r, GoodPayload("t1", 1)) /\ r.status = PROCESSED
  /\ \E r \in Rows(store, "t2") : FromPayload(r, GoodPayload("t2", 2)) /\ r.status = PROCESSING
  /\ Cardinality(store) = 2

\* C15: each transaction_id is dequeued at most once, the worker commits its update at most
\* once, and a processed_at that is set is never changed by a later step.
C15_NoDoubleProcessing ==
  [][/\ \A t \in TxnIds : deqCount'[t] <= 1
     /\ (wpc = "commit" /\ wpc' = "get") => wid \notin wdone
     /\ \A r \in store :
          r.processed_at # NoTime =>
            \A r2 \in Rows(store', r.transaction_id) : r2.processed_at = r.processed_at]_vars

\* t1 was dequeued and committed once, a duplicate submit arrived afterwards, and the
\* worker is idle on an empty queue
C15_Witness ==
  /\ deqCount["t1"] = 1
  /\ "t1" \in wdone
  /\ queue = <<>>
  /\ wpc = "get"
  /\ \E c \in Calls : TidOf(c) = "t1" /\ after[c] = PROCESSED /\ pc[c] = "done"

\* C16: after an error in the processing of a dequeued item, the item's record is
\* PROCESSING with processed_at absent and the identity is not on the queue, in every
\* later state.
C16_FailedItemDropped ==
  wpc = "dead" =>
    /\ Rows(store, wid) # {}
    /\ \A r \in Rows(store, wid) : r.status = PROCESSING /\ r.processed_at = NoTime
    /\ ~InQueue(wid)

\* the commit of the worker's update failed: the object in memory is PROCESSED, the
\* record in the store is not, and a later duplicate submit changed nothing
C16_Witness ==
  /\ wpc = "dead"
  /\ wobj.status = PROCESSED
  /\ StatusOf(store, wid) = {PROCESSING}
  /\ \E c \in Calls : TidOf(c) = wid /\ outcome[c] = AlreadyProcessing

\* C17: when the worker has dequeued an identity whose record is absent or not
\* PROCESSING, the return of its lookup takes it straight back to the dequeue: it does
\* not enter the hold, and store, queue and clock are as before.
C17_DiscardNotPending ==
  [][(/\ wpc = "lookup"
      /\ wpc' \notin {"lookup", "dead"}
      /\ (Rows(store, wid) = {} \/ StatusOf(store, wid) # {PROCESSING})) =>
        /\ wpc' = "get"
        /\ store' = store
        /\ queue' = queue
        /\ now' = now
        /\ wdone' = wdone]_vars

\* the worker discarded an identity that has no record and has a next item to dequeue
C17_Witness ==
  /\ wpc = "get"
  /\ wid # NoId
  /\ Rows(store, wid) = {}
  /\ wdone = {}
  /\ queue # <<>>

\* C18: identities are taken in enqueue order, one at a time: when an identity has been
\* dequeued, every identity enqueued before it has been marked PROCESSED, and at most one
\* dequeued identity is not yet marked PROCESSED, the one the worker holds.
C18_FifoCompletion ==
  /\ \A i, j \in 1..Len(enqOrder) :
       (i < j /\ enqOrder[i] # enqOrder[j] /\ deqCount[enqOrder[j]] >= 1) =>
         (enqOrder[i] \in wdone /\ StatusOf(store, enqOrder[i]) = {PROCESSED})
  /\ \A t \in TxnIds : (deqCount[t] >= 1 /\ t \notin wdone) => t = wid

\* two identities were enqueued, the second was created before the first was marked
\* PROCESSED, and the worker holds the second after completing the first
C18_Witness ==
  /\ Len(enqOrder) = 2
  /\ enqOrder[1] # enqOrder[2]
  /\ enqOrder[1] \in wdone
  /\ wid = enqOrder[2]
  /\ wpc = "sleep"
  /\ \E r1 \in Rows(store, enqOrder[1]), r2 \in Rows(store, enqOrder[2]) :
       r2.created_at < r1.processed_at

\* C19: an identity that is on the queue, or that the worker has just dequeued, has a
\* stored record whose status is PROCESSING, and the return of the worker's lookup never
\* takes the discard branch.
C19_QueuedIsPending ==
  [][/\ \A t \in TxnIds : InQueue(t)' => StatusOf(store', t) = {PROCESSING}
     /\ wpc' = "lookup" => StatusOf(store', wid') = {PROCESSING}
     /\ wpc = "lookup" => wpc' # "get"]_vars

\* the worker's lookup found its item PROCESSING and entered the hold while another
\* identity waits on the queue
C19_Witness ==
  /\ wpc = "sleep"
  /\ wobj.status = PROCESSING
  /\ \E t \in TxnIds : t # wid /\ InQueue(t) /\ StatusOf(store, t) = {PROCESSING}

\* a committed PROCESSING record whose identity is not on the queue, is not about to be
\* enqueued by a handler, and is not held by the running worker
Stranded(t) ==
  /\ StatusOf(store, t) = {PROCESSING}
  /\ ~InQueue(t)
  /\ \A c \in Calls : pc[c] = "enqueue" => txn[c].transaction_id # t
  /\ ~(wid = t /\ wpc \in {"lookup", "sleep", "commit"})

\* C20: once a committed record's identity is neither queued, nor about to be enqueued,
\* nor held by the worker (the process restarted between commit and enqueue, or the queue
\* was lost while the record was PROCESSING), it stays so in every later step: a submit
\* of that transaction_id returns the duplicate acknowledgement on its lookup, nothing is
\* enqueued for it, and the record stays PROCESSING.
C20_StrandedForever ==
  [][\A t \in TxnIds : Stranded(t) =>
       /\ Stranded(t)'
       /\ enqCount'[t] = enqCount[t]
       /\ \A c \in Calls :
            (pc[c] = "idle" /\ pc'[c] # "idle" /\ TidOf(c)' = t) =>
              (pc'[c] = "done" /\ outcome'[c] = AlreadyProcessing)]_vars

\* a handler was cut off between its commit and its enqueue, and a later identical
\* submit, arriving when no other was in progress, was acknowledged as a duplicate
C20_Witness ==
  \E c, d \in Calls :
    /\ outcome[c] = Aborted
    /\ WellFormed(data[c])
    /\ data[d] = data[c]
    /\ after[d] = PROCESSING
    /\ outcome[d] = AlreadyProcessing
    /\ enqCount[TidOf(c)] = 0
    /\ queue = <<>>
    /\ Stranded(TidOf(c))
====
